---- MODULE Spec2Model ----
(***************************************************************************)
(* Model of pages/api/scan.js: the chunked, time-boxed USDC log scan with  *)
(* per-endpoint retry and failover, and the cursor a caller follows to     *)
(* page backward through history.                                          *)
(*                                                                         *)
(* Time is the number of milliseconds elapsed since `startedAt`, and it    *)
(* saturates at MaxElapsed, which is larger than every budget the model    *)
(* draws: the code only ever compares the elapsed time with the budget.    *)
(***************************************************************************)
EXTENDS Integers, Sequences, FiniteSets, TLC

VARIABLES env, backendMode, ledger, pc, req, clients, elapsed, toBlock,
          fromBlock, cursor, chunkRange, all, nextFromBlock, tsTodo,
          blockMap, wc, lastWr, res, issued, lastCall, sess, par, chk, page

\* the state of one scan call, followed step by step
callVars == <<env, backendMode, ledger, pc, req, clients, elapsed, toBlock,
              fromBlock, cursor, chunkRange, all, nextFromBlock, tsTodo,
              blockMap, wc, lastWr, res, issued, lastCall, sess>>

vars == <<callVars, par, chk, page>>

------------------------------------------------------------------------------
(* Bounds of the model *)

MaxTip == 4
MaxWindow == 3
MaxChunk == 2
MaxBudget == 1
MaxRetriesParam == 1
MaxCalls == 2
MaxTarget == 2

MaxElapsed == MaxBudget + 1

\* the chunk queries of a call that the model remembers: a walk that makes
\* progress issues at most MaxWindow + 1 of them
MaxIssued == MaxWindow + 2

\* a budget so large that no call of the model outlasts it
BigBudget == 1000000

(* Program constants *)

ChunkMaxRetries == 3
ChunkRetryDelayMs == 1200
ChunkRateDelayMs == 11000
FailoverPauseMs == 800
DefaultRetryDelayMs == 1200
DefaultRateDelayMs == 11000
DefaultChunkDelayMs == 300
DefaultClientTimeoutMs == 120000
MinTimeoutMs == 15000
BudgetMarginMs == 3000

\* An optional value is <<>> (null, undefined) or <<v>>
Null == <<>>
NoRes == [status |-> 0]
NoWr == [result |-> "none"]
NoCall == [kind |-> "none"]
NoReq == [window |-> 0, chunk |-> 0, maxms |-> 0, retries |-> 0, rdelay |-> 0,
          ratedelay |-> 0, cdelay |-> 0, bdelay |-> 0, cursorTo |-> Null]
IdleWcOutstanding == [ci |-> 1, i |-> 0, calls |-> 0, last |-> Null, slept |-> 0]

IdleWc == [ci |-> 0, i |-> 0, calls |-> 0, last |-> Null, slept |-> 0]
NoSess == [n |-> 0, fresh |-> FALSE, top |-> Null, covered |-> {}, prev |-> Null]

Min(a, b) == IF a < b THEN a ELSE b
Max(a, b) == IF a > b THEN a ELSE b
Range(s) == {s[i] : i \in 1..Len(s)}

------------------------------------------------------------------------------
(* Values crossing the interface *)

Digits == <<"0", "1", "2", "3", "4", "5", "6", "7", "8", "9">>

RECURSIVE toString(_)
toString(n) ==
  IF n < 10 THEN <<Digits[n + 1]>>
  ELSE toString(n \div 10) \o <<Digits[(n % 10) + 1]>>

DigitValue(c) == CHOOSE d \in 0..9 : Digits[d + 1] = c

IsDecimal(s) == Len(s) > 0 /\ \A i \in 1..Len(s) : s[i] \in Range(Digits)

RECURSIVE BigIntOf(_)
BigIntOf(s) ==
  IF Len(s) = 0 THEN 0
  ELSE 10 * BigIntOf(SubSeq(s, 1, Len(s) - 1)) + DigitValue(s[Len(s)])

\* StringToBigInt strips the white space around the literal
RECURSIVE Trim(_)
Trim(s) ==
  IF s = <<>> THEN s
  ELSE IF Head(s) = " " THEN Trim(Tail(s))
  ELSE IF s[Len(s)] = " " THEN Trim(SubSeq(s, 1, Len(s) - 1))
  ELSE s

\* BigInt(s) of a string over digits, blanks and letters: the empty literal
\* is 0n, a decimal literal is its value, anything else is a SyntaxError
BigIntAccepts(s) == Trim(s) = <<>> \/ IsDecimal(Trim(s))

BigInt(s) == BigIntOf(Trim(s))

\* JavaScript truthiness of a value that is null or a BigInt: 0n is falsy
truthy(v) == v # Null /\ v[1] # 0

truthyStrNever(v) == FALSE

\* JavaScript truthiness of a value that is undefined or a string
truthyStr(v) == v # Null /\ v[1] # <<>>

okUrlAnyScheme(u) == u.scheme # ""

okUrl(u) == u.scheme \in {"http", "https", "HTTP"}

RateLimitMessages == {"Too Many Requests"}
ErrMessages == {"Too Many Requests", "timeout"}
isRateLimitNever(m) == FALSE

isRateLimit(m) == m \in RateLimitMessages

Tick(e, d) == Min(MaxElapsed, e + d)

\* sleep(ms): the timer fires no earlier than ms after it was set
Sleep(e, ms, late) == IF ms = 0 THEN e ELSE Tick(e, ms + late)

------------------------------------------------------------------------------
(* The backend: a ledger of Transfer logs per block *)

Blocks == 0..(MaxTip + 1)

Ledgers ==
  { [b \in Blocks |-> 0],
    [b \in Blocks |-> IF b = 3 THEN 2 ELSE IF b \in {0, 2} THEN 1 ELSE 0] }

LogsAt(b) ==
  IF b \in DOMAIN ledger
  THEN [k \in 1..ledger[b] |-> [blockHash |-> b, idx |-> k]]
  ELSE <<>>

RECURSIVE getLogs(_, _)
getLogs(f, t) == IF f > t THEN <<>> ELSE LogsAt(f) \o getLogs(f + 1, t)

\* block.timestamp, in seconds: later blocks are younger
BlockTimestamp(b) == 2 * b + 1

\* Date.now() at startedAt: later than every block of the ledger
ClockBase == BlockTimestamp(MaxTip + 20) * 1000

Envs ==
  { <<[scheme |-> "https", host |-> "a"], [scheme |-> "", host |-> ""]>>,
    <<[scheme |-> "https", host |-> "a"], [scheme |-> "http", host |-> "b"]>>,
    <<[scheme |-> "ftp", host |-> "c"], [scheme |-> "http", host |-> "b"]>>,
    <<[scheme |-> "ftp", host |-> "c"], [scheme |-> "", host |-> ""]>> }

\* How the endpoints behave: "any" lets every attempt succeed or fail;
\* "primaryThrottled" makes the primary URL answer every call with a
\* rate-limit error and every other endpoint succeed.
BackendModes == {"any", "primaryThrottled"}

CanSucceed(u) == backendMode = "any" \/ u # env[1]

CanFail(u, msg) == backendMode = "any" \/ (u = env[1] /\ isRateLimit(msg))

FilterOkFallbackFirst(s) ==
  LET ok == SelectSeq(s, okUrl) IN [k \in 1..Len(ok) |-> ok[Len(ok) + 1 - k]]

FilterOk(s) == SelectSeq(s, okUrl)

------------------------------------------------------------------------------
(* Pure parts of the handler *)

WalkStartAtFrom(fb, tb) == fb

\* getLogsChunked, lines 60-61: the boundaries in ascending order
WalkStart(fb, tb) == IF fb < tb THEN fb ELSE tb
WalkEnd(fb, tb) == IF tb > fb THEN tb ELSE fb

start == WalkStart(fromBlock, toBlock)
end == WalkEnd(fromBlock, toBlock)

WindowFromUnclamped(tb, window) == tb - (window - 1)

\* fromBlock of the backward window that ends at tb
WindowFrom(tb, window) == IF tb > window - 1 THEN tb - (window - 1) ELSE 0

ChunkToOffByOne(c, step, e) == IF c + step > e THEN e ELSE c + step

ChunkTo(c, step, e) == IF c + step - 1 > e THEN e ELSE c + step - 1

\* getLogsChunked, line 67
DeadlinePassed(e, maxms) == e > maxms

NextFromBlockAlways(c, e) == <<c>>

NextFromBlock(c, e) == IF c <= e THEN <<c>> ELSE Null

NextCursorToSameStart(nfb, fb) ==
  IF truthy(nfb) THEN <<toString(nfb[1])>>
  ELSE IF fb > 0 THEN <<toString(fb)>> ELSE Null

NextCursorTo(nfb, fb) ==
  IF truthy(nfb) THEN <<toString(nfb[1])>>
  ELSE IF fb > 0 THEN <<toString(fb - 1)>> ELSE Null

ScannedBlocks(tb, fb) == tb - fb + 1

EmptyPartial == TRUE

RowsPartialNever(e, maxms) == FALSE

RowsPartial(e, maxms) == e > maxms

\* withRetry, line 39: the loop condition
LoopGuard(i, maxRetries) == i <= maxRetries

LastAttemptEarly(i, maxRetries) == i >= maxRetries - 1

LastAttempt(i, maxRetries) == i = maxRetries

RECURSIVE Distinct(_, _)
Distinct(s, seen) ==
  IF s = <<>> THEN <<>>
  ELSE IF Head(s) \in seen THEN Distinct(Tail(s), seen)
       ELSE <<Head(s)>> \o Distinct(Tail(s), seen \cup {Head(s)})

BlockSet(logs) == Distinct([k \in 1..Len(logs) |-> logs[k].blockHash], {})

\* insert r behind every row that is at least as recent: the sort is stable
RECURSIVE InsertRow(_, _)
InsertRow(r, s) ==
  IF s = <<>> THEN <<r>>
  ELSE IF Head(s).time >= r.time THEN <<Head(s)>> \o InsertRow(r, Tail(s))
       ELSE <<r>> \o s

RECURSIVE SortDesc(_)
SortDesc(s) ==
  IF s = <<>> THEN <<>>
  ELSE InsertRow(s[Len(s)], SortDesc(SubSeq(s, 1, Len(s) - 1)))

Slice(s, n) == SubSeq(s, 1, Min(n, Len(s)))

RowOfEpoch(l, bm, now) ==
  [time |-> IF l.blockHash \in DOMAIN bm THEN bm[l.blockHash] ELSE 0,
   hash |-> <<l.blockHash, l.idx>>]

RowOf(l, bm, now) ==
  [time |-> IF l.blockHash \in DOMAIN bm THEN bm[l.blockHash] ELSE now,
   hash |-> <<l.blockHash, l.idx>>]

RowsSliceFirst(logs, bm, now, target) ==
  SortDesc(Slice([k \in 1..Len(logs) |-> RowOf(logs[k], bm, now)], target))

Rows(logs, bm, now, target) ==
  Slice(SortDesc([k \in 1..Len(logs) |-> RowOf(logs[k], bm, now)]), target)

BlocksOf(ranges) ==
  UNION {ranges[k][1]..ranges[k][2] : k \in 1..Len(ranges)}

Policy ==
  IF pc = "logs"
  THEN [maxRetries |-> ChunkMaxRetries, retryDelayMs |-> ChunkRetryDelayMs,
        rateDelayMs |-> ChunkRateDelayMs]
  ELSE [maxRetries |-> req.retries, retryDelayMs |-> req.rdelay,
        rateDelayMs |-> req.ratedelay]

------------------------------------------------------------------------------
(* State *)

Requests ==
  [window : 0..MaxWindow, chunk : 1..MaxChunk,
   maxms : (0..MaxBudget) \cup {BigBudget},
   retries : 0..MaxRetriesParam, rdelay : {DefaultRetryDelayMs},
   ratedelay : {DefaultRateDelayMs}, cdelay : {0, DefaultChunkDelayMs},
   bdelay : {0}, cursorTo : {Null}]

\* num() accepts every finite number: a chunk size of 0
ZeroChunkRequests ==
  [window : {MaxWindow}, chunk : {0}, maxms : {0, MaxBudget}, retries : {0},
   rdelay : {DefaultRetryDelayMs}, ratedelay : {DefaultRateDelayMs},
   cdelay : {0, DefaultChunkDelayMs}, bdelay : {0}, cursorTo : {Null}]

\* num() accepts every finite number: a negative number of retries
NegativeRetriesRequests ==
  [window : {MaxWindow}, chunk : {MaxChunk}, maxms : {BigBudget},
   retries : {-1}, rdelay : {DefaultRetryDelayMs},
   ratedelay : {DefaultRateDelayMs}, cdelay : {0}, bdelay : {0},
   cursorTo : {Null}]

FirstCursors == {Null, <<toString(12)>>, <<<<"x">>>>, <<<<" ">>>>}

\* a call of the two-call specification before it starts
IdleCall ==
  [pc |-> "idle",
   q |-> [window |-> 0, chunk |-> 0, target |-> 0, cursorTo |-> Null],
   urls |-> <<>>, late |-> FALSE, toBlock |-> 0, fromBlock |-> 0,
   cursor |-> 0, chunkRange |-> <<0, 0>>, issued |-> <<>>, all |-> <<>>,
   nextFromBlock |-> Null, tsTodo |-> <<>>, blockMap |-> <<>>, res |-> NoRes]

\* Home, lines 489-495: the state of the page at its first render
FirstRender ==
  [timeout |-> DefaultClientTimeoutMs, rows |-> <<>>, nextCursorTo |-> Null,
   loading |-> FALSE, err |-> "", mounted |-> FALSE, inflight |-> {},
   started |-> 0, lastOk |-> Null]

Init ==
  /\ env \in Envs
  /\ backendMode \in BackendModes
  /\ ledger \in Ledgers
  /\ pc = "idle"
  /\ req = NoReq
  /\ clients = <<>>
  /\ elapsed = 0
  /\ toBlock = 0
  /\ fromBlock = 0
  /\ cursor = 0
  /\ chunkRange = <<0, 0>>
  /\ all = <<>>
  /\ nextFromBlock = Null
  /\ tsTodo = <<>>
  /\ blockMap = <<>>
  /\ wc = IdleWc
  /\ lastWr = NoWr
  /\ res = NoRes
  /\ issued = <<>>
  /\ lastCall = NoCall
  /\ sess = NoSess
  /\ par = [shared |-> [rpc |-> env],
            calls |-> [k \in 1..2 |-> IdleCall],
            solo |-> [k \in 1..2 |-> [shared |-> [rpc |-> env],
                                      call |-> IdleCall]],
            overlap |-> FALSE]
  /\ chk = [fwd |-> IdleCall, rev |-> IdleCall]
  /\ page = FirstRender

backend == <<env, backendMode, ledger>>

SendNothing(r) == /\ res' = NoRes
                  /\ pc' = "responded"

\* res.status(...).json(...): the response of the call
Send(r) == /\ res' = r
           /\ pc' = "responded"

Catch500AsPartial(msg) ==
  Send([status |-> 200, rows |-> <<>>, scannedBlocks |-> 0,
        nextCursorTo |-> Null, partial |-> TRUE])

\* handler, lines 202-204: an exception becomes a 500 response
Catch500(msg) == Send([status |-> 500, error |-> msg])

\* handler, lines 132-148 and getLogsChunked, lines 59-63
EnterChunker(tb, window, s0) ==
  LET fb == WindowFrom(tb, window) IN
  /\ toBlock' = tb
  /\ fromBlock' = fb
  /\ cursor' = WalkStart(fb, tb)
  /\ all' = <<>>
  /\ pc' = "chunkLoop"
  /\ sess' = IF s0.top = Null THEN [s0 EXCEPT !.top = <<tb>>] ELSE s0

\* getLogsChunked, lines 84-86, and handler, lines 150-162
AfterChunker(nfb) ==
  /\ nextFromBlock' = nfb
  /\ IF all = <<>>
     THEN /\ Send([status |-> 200, rows |-> <<>>,
                   scannedBlocks |-> ScannedBlocks(toBlock, fromBlock),
                   nextCursorTo |-> NextCursorTo(nfb, fromBlock),
                   partial |-> EmptyPartial])
          /\ UNCHANGED <<tsTodo, blockMap>>
     ELSE /\ tsTodo' = BlockSet(all)
          /\ blockMap' = <<>>
          /\ pc' = "tsLoop"
          /\ UNCHANGED res

StartWc == [ci |-> 1, i |-> 0, calls |-> 0, last |-> Null, slept |-> 0]

Querying == pc \in {"tip", "logs", "ts"}

\* handler, lines 89-148, for the request q
HandlerStart(q, s0) ==
  LET urls == FilterOk(env)
      path == IF urls = <<>> THEN "noRpc"
              ELSE IF ~truthyStr(q.cursorTo) THEN "tip"
              ELSE IF BigIntAccepts(q.cursorTo[1]) THEN "cursor"
              ELSE "badCursor"
  IN
  /\ req' = q
  /\ clients' = urls
  /\ elapsed' = 0
  /\ issued' = <<>>
  /\ lastCall' = NoCall
  /\ lastWr' = NoWr
  /\ nextFromBlock' = Null
  /\ tsTodo' = <<>>
  /\ blockMap' = <<>>
  /\ chunkRange' = <<0, 0>>
  /\ wc' = IF path = "tip" THEN StartWc ELSE IdleWc
  /\ UNCHANGED <<backend, par, chk, page>>
  /\ CASE path = "noRpc" ->
            /\ Send([status |-> 400, error |-> "No RPC configured"])
            /\ sess' = s0
            /\ UNCHANGED <<toBlock, fromBlock, cursor, all>>
       [] path = "badCursor" ->
            /\ Catch500("Cannot convert to a BigInt")
            /\ sess' = s0
            /\ UNCHANGED <<toBlock, fromBlock, cursor, all>>
       [] path = "cursor" ->
            /\ EnterChunker(BigInt(q.cursorTo[1]), q.window, s0)
            /\ res' = NoRes
       [] path = "tip" ->
            /\ pc' = "tip"
            /\ res' = NoRes
            /\ sess' = s0
            /\ UNCHANGED <<toBlock, fromBlock, cursor, all>>

\* a first scan call: no cursor, or a cursor the caller chose
Scan(q, c) ==
  /\ pc = "idle"
  /\ HandlerStart([q EXCEPT !.cursorTo = c],
                  [sess EXCEPT !.n = 1, !.fresh = (c = Null)])

\* a later call that echoes the cursor of the previous response
LoadMore ==
  /\ pc = "responded"
  /\ res.status = 200
  /\ res.nextCursorTo # Null
  /\ sess.n < MaxCalls
  /\ HandlerStart([req EXCEPT !.cursorTo = res.nextCursorTo],
                  [sess EXCEPT !.n = @ + 1,
                               !.prev = <<[fromBlock |-> fromBlock,
                                           toBlock |-> toBlock,
                                           blocks |-> BlocksOf(issued)]>>])

\* getLogsChunked, lines 65-77: the next chunk query is issued
GetLogsChunkedIssue ==
  /\ pc = "chunkLoop"
  /\ cursor <= end
  /\ ~DeadlinePassed(elapsed, req.maxms)
  /\ chunkRange' = <<cursor, ChunkTo(cursor, req.chunk, end)>>
  /\ issued' = IF Len(issued) < MaxIssued THEN Append(issued, chunkRange')
               ELSE issued
  /\ sess' = [sess EXCEPT !.covered = @ \cup (chunkRange'[1]..chunkRange'[2])]
  /\ wc' = StartWc
  /\ lastWr' = NoWr
  /\ lastCall' = NoCall
  /\ pc' = "logs"
  /\ UNCHANGED <<par, chk, page>>
  /\ UNCHANGED <<backend, req, clients, elapsed, toBlock, fromBlock, cursor,
                 all, nextFromBlock, tsTodo, blockMap, res>>

\* getLogsChunked, line 67: the soft time budget stops the walk
GetLogsChunkedBreak ==
  /\ pc = "chunkLoop"
  /\ cursor <= end
  /\ DeadlinePassed(elapsed, req.maxms)
  /\ AfterChunker(NextFromBlock(cursor, end))
  /\ UNCHANGED <<par, chk, page>>
  /\ UNCHANGED <<backend, req, clients, elapsed, toBlock, fromBlock, cursor,
                 chunkRange, all, wc, lastWr, issued, lastCall, sess>>

\* getLogsChunked, line 65: the cursor has passed the end of the range
GetLogsChunkedExit ==
  /\ pc = "chunkLoop"
  /\ cursor > end
  /\ AfterChunker(NextFromBlock(cursor, end))
  /\ UNCHANGED <<par, chk, page>>
  /\ UNCHANGED <<backend, req, clients, elapsed, toBlock, fromBlock, cursor,
                 chunkRange, all, wc, lastWr, issued, lastCall, sess>>

\* handler, lines 164-170: the next timestamp lookup is issued
TimestampsIssue ==
  /\ pc = "tsLoop"
  /\ tsTodo # <<>>
  /\ ~DeadlinePassed(elapsed, req.maxms)
  /\ wc' = StartWc
  /\ lastWr' = NoWr
  /\ lastCall' = NoCall
  /\ pc' = "ts"
  /\ UNCHANGED <<par, chk, page>>
  /\ UNCHANGED <<backend, req, clients, elapsed, toBlock, fromBlock, cursor,
                 chunkRange, all, nextFromBlock, tsTodo, blockMap,
                 res, issued, sess>>

\* handler, lines 164-165 and 175-201: the rows are shaped and sent
TimestampsEnd(target) ==
  /\ pc = "tsLoop"
  /\ tsTodo = <<>> \/ DeadlinePassed(elapsed, req.maxms)
  /\ Send([status |-> 200,
           rows |-> Rows(all, blockMap, ClockBase + elapsed, target),
           scannedBlocks |-> ScannedBlocks(toBlock, fromBlock),
           nextCursorTo |-> NextCursorTo(nextFromBlock, fromBlock),
           target |-> target,
           partial |-> RowsPartial(elapsed, req.maxms)])
  /\ UNCHANGED <<par, chk, page>>
  /\ UNCHANGED <<backend, req, clients, elapsed, toBlock, fromBlock, cursor,
                 chunkRange, all, nextFromBlock, tsTodo, blockMap, wc, lastWr,
                 issued, lastCall, sess>>

\* the attempt that fn() is about to make, as the budget sees it
ThisCall(outcome) ==
  [kind |-> pc, client |-> wc.ci, attempt |-> wc.i, at |-> elapsed,
   late |-> DeadlinePassed(elapsed, req.maxms), outcome |-> outcome]

\* withRetry, line 40: fn() resolves and withRetry returns its value
WithRetryReturn(v) ==
  /\ LoopGuard(wc.i, Policy.maxRetries)
  /\ CanSucceed(clients[wc.ci])
  /\ lastCall' = ThisCall("ok")
  /\ lastWr' = [result |-> "returned", kind |-> pc, client |-> wc.ci,
                maxRetries |-> Policy.maxRetries, calls |-> wc.calls + 1,
                value |-> v]
  /\ wc' = IdleWc
  /\ UNCHANGED <<par, chk, page>>
  /\ UNCHANGED <<backend, req, clients, chunkRange, nextFromBlock, res,
                 issued>>

\* handler, lines 126-135: getBlockNumber answers with the tip height
GetBlockNumberReturn(tip, dur) ==
  /\ pc = "tip"
  /\ WithRetryReturn(<<tip>>)
  /\ EnterChunker(tip, req.window, sess)
  /\ elapsed' = Tick(elapsed, dur)
  /\ UNCHANGED <<tsTodo, blockMap>>

\* getLogsChunked, lines 73-81: getLogs answers with the logs of the chunk
GetLogsReturn(dur, late) ==
  /\ pc = "logs"
  /\ WithRetryReturn(Null)
  /\ all' = all \o getLogs(chunkRange[1], chunkRange[2])
  /\ cursor' = chunkRange[2] + 1
  /\ elapsed' = Sleep(Tick(elapsed, dur), req.cdelay, late)
  /\ pc' = "chunkLoop"
  /\ UNCHANGED <<toBlock, fromBlock, tsTodo, blockMap, sess>>

\* handler, lines 166-172: getBlock answers with the block of the hash
GetBlockReturn(dur, late) ==
  /\ pc = "ts"
  /\ WithRetryReturn(Null)
  /\ blockMap' = (Head(tsTodo) :> BlockTimestamp(Head(tsTodo)) * 1000)
                    @@ blockMap
  /\ tsTodo' = Tail(tsTodo)
  /\ elapsed' = Sleep(Tick(elapsed, dur), req.bdelay, late)
  /\ pc' = "tsLoop"
  /\ UNCHANGED <<toBlock, fromBlock, cursor, all, sess>>

\* handler, line 203: String(e?.message || e)
ErrorText(e) == IF e = Null THEN "undefined" ELSE e[1].message

Err(msg) == [message |-> msg, client |-> wc.ci, attempt |-> wc.i]

CatchLastKeepFirst(prev, e) == IF prev = Null THEN <<e>> ELSE prev

\* withRetry, line 42 and withClients, line 53: last = e
CatchLast(prev, e) == <<e>>

RetryDelay(msg) ==
  IF isRateLimit(msg) THEN Policy.rateDelayMs ELSE Policy.retryDelayMs

\* withRetry, lines 41-45: fn() rejects and another attempt follows
WithRetryRetry(msg, dur, late) ==
  /\ Querying
  /\ LoopGuard(wc.i, Policy.maxRetries)
  /\ CanFail(clients[wc.ci], msg)
  /\ ~LastAttempt(wc.i, Policy.maxRetries)
  /\ lastCall' = ThisCall(msg)
  /\ elapsed' = Sleep(Tick(elapsed, dur), RetryDelay(msg), late)
  /\ wc' = [wc EXCEPT !.i = @ + 1, !.calls = @ + 1,
                      !.last = CatchLast(wc.last, Err(msg)),
                      !.slept = RetryDelay(msg)]
  /\ UNCHANGED <<par, chk, page>>
  /\ UNCHANGED <<backend, pc, req, clients, toBlock, fromBlock, cursor,
                 chunkRange, all, nextFromBlock, tsTodo, blockMap, lastWr, res,
                 issued, sess>>

Threw(msg) ==
  [result |-> "threw", kind |-> pc, client |-> wc.ci,
   maxRetries |-> Policy.maxRetries, calls |-> wc.calls + 1,
   error |-> CatchLast(wc.last, Err(msg))[1]]

\* withRetry, lines 43 and 47, withClients, line 53: the endpoint is given
\* up and the next one is tried after a pause
WithClientsFailover(msg, dur, late) ==
  /\ Querying
  /\ LoopGuard(wc.i, Policy.maxRetries)
  /\ CanFail(clients[wc.ci], msg)
  /\ LastAttempt(wc.i, Policy.maxRetries)
  /\ wc.ci < Len(clients)
  /\ lastCall' = ThisCall(msg)
  /\ lastWr' = Threw(msg)
  /\ elapsed' = Sleep(Tick(elapsed, dur), FailoverPauseMs, late)
  /\ wc' = [ci |-> wc.ci + 1, i |-> 0, calls |-> 0,
            last |-> CatchLast(wc.last, Err(msg)),
            slept |-> FailoverPauseMs]
  /\ UNCHANGED <<par, chk, page>>
  /\ UNCHANGED <<backend, pc, req, clients, toBlock, fromBlock, cursor,
                 chunkRange, all, nextFromBlock, tsTodo, blockMap, res, issued,
                 sess>>

\* withClients, line 55 and handler, lines 202-204: the last endpoint is
\* given up and the call fails
WithClientsThrow(msg, dur) ==
  /\ Querying
  /\ LoopGuard(wc.i, Policy.maxRetries)
  /\ CanFail(clients[wc.ci], msg)
  /\ LastAttempt(wc.i, Policy.maxRetries)
  /\ wc.ci >= Len(clients)
  /\ lastCall' = ThisCall(msg)
  /\ lastWr' = Threw(msg)
  /\ elapsed' = Tick(elapsed, dur)
  /\ wc' = IdleWc
  /\ Catch500(ErrorText(CatchLast(wc.last, Err(msg))))
  /\ UNCHANGED <<par, chk, page>>
  /\ UNCHANGED <<backend, req, clients, toBlock, fromBlock, cursor,
                 chunkRange, all, nextFromBlock, tsTodo, blockMap, issued,
                 sess>>

\* the value withRetry throws when its loop body never ran: undefined
ThrewNothing ==
  [result |-> "threw", kind |-> pc, client |-> wc.ci,
   maxRetries |-> Policy.maxRetries, calls |-> wc.calls, last |-> wc.last]

\* withRetry, lines 39 and 47, withClients, line 53: the loop of withRetry
\* makes no attempt, and the next endpoint is tried after a pause
WithRetryNoAttemptFailover(late) ==
  /\ Querying
  /\ ~LoopGuard(wc.i, Policy.maxRetries)
  /\ wc.ci < Len(clients)
  /\ lastWr' = ThrewNothing
  /\ elapsed' = Sleep(elapsed, FailoverPauseMs, late)
  /\ wc' = [ci |-> wc.ci + 1, i |-> 0, calls |-> 0, last |-> wc.last,
            slept |-> FailoverPauseMs]
  /\ UNCHANGED <<par, chk, page>>
  /\ UNCHANGED <<backend, pc, req, clients, toBlock, fromBlock, cursor,
                 chunkRange, all, nextFromBlock, tsTodo, blockMap, res, issued,
                 lastCall, sess>>

\* withRetry, lines 39 and 47, withClients, line 55 and handler, lines
\* 202-204: no attempt on the last endpoint either, and the call fails
WithRetryNoAttemptThrow ==
  /\ Querying
  /\ ~LoopGuard(wc.i, Policy.maxRetries)
  /\ wc.ci >= Len(clients)
  /\ lastWr' = ThrewNothing
  /\ wc' = IdleWc
  /\ Catch500(ErrorText(wc.last))
  /\ UNCHANGED <<par, chk, page>>
  /\ UNCHANGED <<backend, req, clients, elapsed, toBlock, fromBlock, cursor,
                 chunkRange, all, nextFromBlock, tsTodo, blockMap, issued,
                 lastCall, sess>>

Next ==
  \/ \E q \in Requests \cup ZeroChunkRequests \cup NegativeRetriesRequests,
        c \in FirstCursors : Scan(q, c)
  \/ LoadMore
  \/ GetLogsChunkedIssue
  \/ GetLogsChunkedBreak
  \/ GetLogsChunkedExit
  \/ TimestampsIssue
  \/ \E target \in 0..MaxTarget : TimestampsEnd(target)
  \/ \E tip \in 0..MaxTip, dur \in 0..1 : GetBlockNumberReturn(tip, dur)
  \/ \E dur \in 0..1, late \in 0..1 : GetLogsReturn(dur, late)
  \/ \E dur \in 0..1, late \in 0..1 : GetBlockReturn(dur, late)
  \/ \E msg \in ErrMessages, dur \in 0..1, late \in 0..1 :
        WithRetryRetry(msg, dur, late)
  \/ \E msg \in ErrMessages, dur \in 0..1, late \in 0..1 :
        WithClientsFailover(msg, dur, late)
  \/ \E msg \in ErrMessages, dur \in 0..1 : WithClientsThrow(msg, dur)
  \/ \E late \in 0..1 : WithRetryNoAttemptFailover(late)
  \/ WithRetryNoAttemptThrow

Spec == Init /\ [][Next]_vars

\* the steps of the handler: everything but the arrival of a request
HandlerStep ==
  \/ GetLogsChunkedIssue
  \/ GetLogsChunkedBreak
  \/ GetLogsChunkedExit
  \/ TimestampsIssue
  \/ \E target \in 0..MaxTarget : TimestampsEnd(target)
  \/ \E tip \in 0..MaxTip, dur \in 0..1 : GetBlockNumberReturn(tip, dur)
  \/ \E dur \in 0..1, late \in 0..1 : GetLogsReturn(dur, late)
  \/ \E dur \in 0..1, late \in 0..1 : GetBlockReturn(dur, late)
  \/ \E msg \in ErrMessages, dur \in 0..1, late \in 0..1 :
        WithRetryRetry(msg, dur, late)
  \/ \E msg \in ErrMessages, dur \in 0..1, late \in 0..1 :
        WithClientsFailover(msg, dur, late)
  \/ \E msg \in ErrMessages, dur \in 0..1 : WithClientsThrow(msg, dur)
  \/ \E late \in 0..1 : WithRetryNoAttemptFailover(late)
  \/ WithRetryNoAttemptThrow

\* a chunk query whose answer takes time to arrive
ClockAdvances == \E late \in 0..1 : GetLogsReturn(1, late)

\* every backend call returns or fails, the event loop runs the handler on,
\* and the clock advances
InitLive ==
  /\ Init
  /\ backendMode = "any"
  /\ Len(FilterOk(env)) # 1
  /\ \E b \in Blocks : ledger[b] > 0

SpecLive ==
  /\ InitLive /\ [][Next]_vars
  /\ WF_vars(HandlerStep)
  /\ SF_vars(ClockAdvances)

------------------------------------------------------------------------------
(* Two scan calls served by one process.  par.shared is the module-level    *)
(* state of scan.js, par.calls[k] the state of call k, and par.solo[k] the  *)
(* module and call state of call k as they would be had call k run alone    *)
(* with the same backend answers and the same clock readings.  A call to    *)
(* withClients is one step here, with its outcome as the input: withRetry   *)
(* and withClients keep their state in locals.                              *)

ParRequests ==
  [window : {MaxChunk}, chunk : 1..MaxChunk, target : {1},
   cursorTo : {Null, <<toString(MaxTip - 1)>>}]

SharedAfterSticky(m, c) ==
  IF c.res.status = 500 THEN [m EXCEPT !.rpc = <<m.rpc[2], m.rpc[1]>>] ELSE m

\* lines 11-20: the module-level bindings are const and the handler assigns
\* none of them
SharedAfter(m, c) == m

Respond(c, r) == [c EXCEPT !.pc = "done", !.res = r]

\* handler, lines 202-204
Fail(c, msg) == Respond(c, [status |-> 500, error |-> msg])

\* getLogsChunked, lines 59-63
ChunkerStart(c, fb, tb) ==
  [c EXCEPT !.toBlock = tb, !.fromBlock = fb, !.cursor = WalkStart(fb, tb),
            !.issued = <<>>, !.all = <<>>, !.pc = "chunkLoop"]

\* handler, lines 132-148
EnterChunkerOf(c, tb) == ChunkerStart(c, WindowFrom(tb, c.q.window), tb)

\* handler, lines 89-130
StartCall(m, c, q) ==
  LET urls == FilterOk(m.rpc)
      c1 == [c EXCEPT !.q = q, !.urls = urls]
  IN IF c.pc # "idle" THEN c
     ELSE IF urls = <<>> THEN
       Respond(c1, [status |-> 400, error |-> "No RPC configured"])
     ELSE IF ~truthyStr(q.cursorTo) THEN [c1 EXCEPT !.pc = "tip"]
     ELSE IF BigIntAccepts(q.cursorTo[1]) THEN
       EnterChunkerOf(c1, BigInt(q.cursorTo[1]))
     ELSE Fail(c1, "Cannot convert to a BigInt")

\* handler, lines 126-135
TipAnswered(c, ok, tip) ==
  IF c.pc # "tip" THEN c
  ELSE IF ok THEN EnterChunkerOf(c, tip)
  ELSE Fail(c, "timeout")

\* getLogsChunked, lines 65-72 and 84-86, handler, lines 150-162
ChunkHead(c, reading) ==
  LET e == WalkEnd(c.fromBlock, c.toBlock)
      range == <<c.cursor, ChunkTo(c.cursor, c.q.chunk, e)>>
      late == c.late \/ reading
      nfb == NextFromBlock(c.cursor, e)
      c1 == [c EXCEPT !.late = late]
  IN IF c.pc # "chunkLoop" THEN c
     ELSE IF c.cursor <= e /\ ~late THEN
       [c1 EXCEPT !.chunkRange = range, !.issued = Append(@, range),
                  !.pc = "logs"]
     ELSE IF c.all = <<>> THEN
       Respond([c1 EXCEPT !.nextFromBlock = nfb],
               [status |-> 200, rows |-> <<>>,
                scannedBlocks |-> ScannedBlocks(c.toBlock, c.fromBlock),
                nextCursorTo |-> NextCursorTo(nfb, c.fromBlock),
                urls |-> c.urls, partial |-> EmptyPartial])
     ELSE [c1 EXCEPT !.nextFromBlock = nfb, !.tsTodo = BlockSet(c.all),
                     !.blockMap = <<>>, !.pc = "tsLoop"]

\* getLogsChunked, lines 73-81
LogsAnswered(c, ok) ==
  IF c.pc # "logs" THEN c
  ELSE IF ok THEN
    [c EXCEPT !.all = @ \o getLogs(c.chunkRange[1], c.chunkRange[2]),
              !.cursor = c.chunkRange[2] + 1, !.pc = "chunkLoop"]
  ELSE Fail(c, "timeout")

\* handler, lines 164-165 and 175-201
TimestampsHead(c, reading) ==
  LET late == c.late \/ reading
      c1 == [c EXCEPT !.late = late]
  IN IF c.pc # "tsLoop" THEN c
     ELSE IF c.tsTodo # <<>> /\ ~late THEN [c1 EXCEPT !.pc = "ts"]
     ELSE Respond(c1,
            [status |-> 200,
             rows |-> Rows(c.all, c.blockMap, ClockBase, c.q.target),
             scannedBlocks |-> ScannedBlocks(c.toBlock, c.fromBlock),
             nextCursorTo |-> NextCursorTo(c.nextFromBlock, c.fromBlock),
             urls |-> c.urls, target |-> c.q.target, partial |-> late])

\* handler, lines 166-172
BlockAnswered(c, ok) ==
  IF c.pc # "ts" THEN c
  ELSE IF ok THEN
    LET bh == Head(c.tsTodo) IN
    [c EXCEPT !.blockMap = (bh :> BlockTimestamp(bh) * 1000) @@ c.blockMap,
              !.tsTodo = Tail(c.tsTodo), !.pc = "tsLoop"]
  ELSE Fail(c, "timeout")

InProgress(c) == c.pc \notin {"idle", "done"}

\* call k as it runs in the process, and as it runs alone
Real(k) == par.calls[k]
Alone(k) == par.solo[k].call

\* call k takes a step that leads to c1 in the process and to c2 alone
CallStep(k, c1, c2) ==
  LET s == par.solo[k]
      other == par.calls[3 - k]
  IN /\ par' = [shared |-> SharedAfter(par.shared, c1),
                calls |-> [par.calls EXCEPT ![k] = c1],
                solo |-> [par.solo EXCEPT
                            ![k] = [shared |-> SharedAfter(s.shared, c2),
                                    call |-> c2]],
                overlap |-> \/ par.overlap
                            \/ InProgress(c1) /\ InProgress(other)]
     /\ UNCHANGED <<callVars, chk, page>>

ParStart(k, q) ==
  /\ par.calls[k].pc = "idle"
  /\ CallStep(k, StartCall(par.shared, Real(k), q),
                 StartCall(par.solo[k].shared, Alone(k), q))

ParTipAnswered(k, ok, tip) ==
  /\ par.calls[k].pc = "tip"
  /\ CallStep(k, TipAnswered(Real(k), ok, tip), TipAnswered(Alone(k), ok, tip))

ParChunkHead(k, reading) ==
  /\ par.calls[k].pc = "chunkLoop"
  /\ CallStep(k, ChunkHead(Real(k), reading), ChunkHead(Alone(k), reading))

ParLogsAnswered(k, ok) ==
  /\ par.calls[k].pc = "logs"
  /\ CallStep(k, LogsAnswered(Real(k), ok), LogsAnswered(Alone(k), ok))

ParTimestampsHead(k, reading) ==
  /\ par.calls[k].pc = "tsLoop"
  /\ CallStep(k, TimestampsHead(Real(k), reading), TimestampsHead(Alone(k), reading))

ParBlockAnswered(k, ok) ==
  /\ par.calls[k].pc = "ts"
  /\ CallStep(k, BlockAnswered(Real(k), ok), BlockAnswered(Alone(k), ok))

InitPar ==
  /\ Init
  /\ backendMode = "any"
  /\ \E b \in Blocks : ledger[b] > 0

NextPar ==
  \/ \E k \in 1..2, q \in ParRequests : ParStart(k, q)
  \/ \E k \in 1..2, ok \in BOOLEAN, tip \in {MaxTip - 1} :
        ParTipAnswered(k, ok, tip)
  \/ \E k \in 1..2, reading \in BOOLEAN : ParChunkHead(k, reading)
  \/ \E k \in 1..2, ok \in BOOLEAN : ParLogsAnswered(k, ok)
  \/ \E k \in 1..2, reading \in BOOLEAN : ParTimestampsHead(k, reading)
  \/ \E k \in 1..2, ok \in BOOLEAN : ParBlockAnswered(k, ok)

SpecPar == InitPar /\ [][NextPar]_vars

------------------------------------------------------------------------------
(* getLogsChunked called with its two boundaries in either order: chk.fwd  *)
(* is the call with (fromBlock, toBlock) = (a, b) and chk.rev the call     *)
(* with (b, a), on the same backend and with the same clock readings.      *)

ChunkerCall(a, b, step) ==
  LET c == [IdleCall EXCEPT !.q.chunk = step] IN
  /\ chk.fwd.pc = "idle"
  /\ chk' = [fwd |-> ChunkerStart(c, a, b), rev |-> ChunkerStart(c, b, a)]
  /\ UNCHANGED <<callVars, par, page>>

ChunkerHead(reading) ==
  /\ chk.fwd.pc = "chunkLoop"
  /\ chk' = [fwd |-> ChunkHead(chk.fwd, reading),
             rev |-> ChunkHead(chk.rev, reading)]
  /\ UNCHANGED <<callVars, par, page>>

ChunkerAnswered(ok) ==
  /\ chk.fwd.pc = "logs"
  /\ chk' = [fwd |-> LogsAnswered(chk.fwd, ok),
             rev |-> LogsAnswered(chk.rev, ok)]
  /\ UNCHANGED <<callVars, par, page>>

InitChunker ==
  /\ Init
  /\ backendMode = "any"
  /\ Len(FilterOk(env)) = 2
  /\ \E b \in Blocks : ledger[b] > 0

NextChunker ==
  \/ \E a \in 0..MaxTip, b \in 0..MaxTip, step \in 1..MaxChunk :
        ChunkerCall(a, b, step)
  \/ \E reading \in BOOLEAN : ChunkerHead(reading)
  \/ \E ok \in BOOLEAN : ChunkerAnswered(ok)

SpecChunker == InitChunker /\ [][NextChunker]_vars

------------------------------------------------------------------------------
(* Properties *)

Ok200 == pc = "responded" /\ res.status = 200

\* the chunker has returned to the handler
ChunkerReturned == pc \in {"tsLoop", "ts"} \/ Ok200

StoppedEarly == nextFromBlock # Null

\* s is the canonical decimal string of n
IsDecimalOf(s, n) ==
  /\ IsDecimal(s)
  /\ Len(s) > 1 => s[1] # "0"
  /\ BigIntOf(s) = n

IssuedBlocks == BlocksOf(issued)

\* C1: following nextCursorTo from a first call without cursor, every block
\* from the first call's end boundary down to the lowest block the cursor has
\* moved past was covered by an issued chunk query; when nextCursorTo is null
\* every block down to 0 was queried.
C1_ResumableCoverage ==
  (Ok200 /\ sess.fresh /\ sess.top # Null) =>
    LET low == IF res.nextCursorTo = Null THEN 0
               ELSE BigIntOf(res.nextCursorTo[1]) + 1
    IN \A b \in low..sess.top[1] : b \in sess.covered

\* C2: when the walk is not stopped by the deadline, the chunks queried are
\* ascending, contiguous, disjoint, of size at most N, and their union is
\* exactly [start, end]; a chunk size that spans the range gives one chunk.
C2_ChunksPartitionRange ==
  (ChunkerReturned /\ ~StoppedEarly) =>
    /\ Len(issued) >= 1
    /\ issued[1][1] = start
    /\ issued[Len(issued)][2] = end
    /\ \A k \in 1..Len(issued) :
         /\ issued[k][1] <= issued[k][2]
         /\ issued[k][2] - issued[k][1] + 1 <= req.chunk
         /\ k < Len(issued) => issued[k + 1][1] = issued[k][2] + 1
    /\ req.chunk >= end - start + 1 => Len(issued) = 1

C2_Witness ==
  /\ ChunkerReturned /\ ~StoppedEarly
  /\ Len(issued) = 2
  /\ issued[1][2] - issued[1][1] > issued[2][2] - issued[2][1]

\* C3: nextCursorTo, when present, is strictly below the call's start
\* boundary, and a call resumed from it scans a range strictly preceding the
\* prior call's range, with no block covered by both calls.
C3_CursorBelowStart ==
  /\ (Ok200 /\ res.nextCursorTo # Null) =>
       BigIntOf(res.nextCursorTo[1]) < fromBlock
  /\ (sess.prev # Null /\ (Querying \/ ChunkerReturned \/ pc = "chunkLoop")) =>
       /\ toBlock < sess.prev[1].fromBlock
       /\ IssuedBlocks \cap sess.prev[1].blocks = {}

\* C4: a residual cursor c reported by the chunker is answered as
\* nextCursorTo = the decimal string of c, also for c = 0.
C4_ResidualCursorReturned ==
  (Ok200 /\ StoppedEarly) =>
    /\ res.nextCursorTo # Null
    /\ IsDecimalOf(res.nextCursorTo[1], nextFromBlock[1])

\* C5: when the chunker walks the whole window, nextCursorTo is the decimal
\* string of start - 1 when start > 0 and null when start = 0.
C5_CursorAfterFullWalk ==
  (Ok200 /\ ~StoppedEarly) =>
    IF fromBlock > 0
    THEN /\ res.nextCursorTo # Null
         /\ IsDecimalOf(res.nextCursorTo[1], fromBlock - 1)
    ELSE res.nextCursorTo = Null

C5_Witness ==
  /\ Ok200 /\ ~StoppedEarly
  /\ fromBlock > 10
  /\ Len(res.nextCursorTo[1]) = 2
  /\ res.rows = <<>>

\* C6: a call during which the deadline is never exceeded answers
\* partial = false, also with empty rows; partial is true only when the
\* chunker reports that it stopped early.
C6_PartialOnlyWhenStopped ==
  Ok200 =>
    /\ ~DeadlinePassed(elapsed, req.maxms) => ~res.partial
    /\ res.partial => StoppedEarly

\* C7: a call whose chunker is stopped early by the deadline answers 200
\* with partial = true; it issues no further query and does not fail.
C7_DeadlineIsNotAnError ==
  StoppedEarly =>
    /\ ~Querying
    /\ pc = "responded" => (res.status = 200 /\ res.partial)

C7_Witness ==
  /\ Ok200 /\ StoppedEarly
  /\ res.rows # <<>>

\* C8: scannedBlocks is the number of blocks covered by the chunk queries
\* that were issued.
C8_ScannedBlocksAreQueried ==
  Ok200 => res.scannedBlocks = Cardinality(IssuedBlocks)

\* C9: once the time budget has elapsed, no backend call is started.
C9_NoCallAfterDeadline ==
  lastCall.kind # "none" => ~lastCall.late

\* C10: withRetry invokes the operation exactly maxRetries + 1 times when
\* every attempt fails, and exactly k times when attempt k is the first to
\* succeed, with k <= maxRetries + 1.
C10_RetryAccounting ==
  /\ lastWr.result = "threw" => lastWr.calls = lastWr.maxRetries + 1
  /\ lastWr.result = "returned" =>
       /\ lastWr.calls >= 1
       /\ lastWr.calls <= lastWr.maxRetries + 1

C10_Witness ==
  /\ lastWr.result = "threw"
  /\ lastWr.kind = "tip"
  /\ lastWr.maxRetries = 1
  /\ lastWr.calls = 2

\* a well-formed http or https URL
IsHttpUrl(u) == u.scheme \in {"http", "https"}

\* the position in env of the k-th well-formed URL
KthValid(k) ==
  CHOOSE i \in 1..Len(env) :
    /\ IsHttpUrl(env[i])
    /\ Cardinality({j \in 1..(i - 1) : IsHttpUrl(env[j])}) = k - 1

\* C11: the pool is the well-formed URLs in configuration order; a query
\* starts on the first endpoint, endpoint k+1 is invoked only after endpoint k
\* has failed maxRetries + 1 attempts, and no endpoint is invoked after a
\* success.
C11_FailoverOrder ==
  /\ pc # "idle" =>
       /\ Len(clients) = Cardinality({i \in 1..Len(env) : IsHttpUrl(env[i])})
       /\ \A k \in 1..Len(clients) : clients[k] = env[KthValid(k)]
  /\ Querying =>
       /\ wc.ci \in 1..Len(clients)
       /\ wc.ci = 1 => lastWr = NoWr
       /\ wc.ci > 1 =>
            /\ lastWr.result = "threw"
            /\ lastWr.kind = pc
            /\ lastWr.client = wc.ci - 1
            /\ lastWr.calls = lastWr.maxRetries + 1
  /\ lastWr.result = "returned" => ~Querying

C11_Witness ==
  /\ pc = "logs"
  /\ wc.ci = 2
  /\ wc.i = 1
  /\ clients[1].host = "a"
  /\ clients[2].host = "b"

\* C12: with two endpoints of which the first answers every call with a
\* rate-limit error and the second succeeds, each retry on the first endpoint
\* follows the rate-limit delay, and once a query of the call has exhausted
\* the first endpoint every later chunk query goes to the second endpoint.
C12_ThrottledEndpointAbandoned ==
  (backendMode = "primaryThrottled" /\ Len(clients) = 2 /\ Querying) =>
    /\ (wc.ci = 1 /\ wc.i > 0) => wc.slept = Policy.rateDelayMs
    /\ (pc = "logs" /\ Len(issued) >= 2) => wc.ci = 2

\* C13: every backend query of a call (tip, chunk logs, timestamp) makes at
\* most retries + 1 attempts per endpoint and backs off with the delays of
\* the request.
C13_RequestPolicyGoverns ==
  /\ Querying =>
       /\ wc.i <= req.retries
       /\ wc.i > 0 =>
            wc.slept = (IF isRateLimit(wc.last[1].message)
                        THEN req.ratedelay ELSE req.rdelay)
  /\ lastWr.result # "none" => lastWr.calls <= req.retries + 1

\* the call has a usable pool and no cursor or a numeric one
ValidConfiguration ==
  /\ clients # <<>>
  /\ req.cursorTo = Null \/ IsDecimal(req.cursorTo[1])

\* withRetry made at least one attempt before it threw
Attempted == lastWr.calls >= 1

\* the query in progress failed on every attempt on every endpoint
Exhausted == lastWr.result = "threw" /\ lastWr.client = Len(clients)

\* C14: with a valid configuration the call answers an error if and only if
\* some query failed on every attempt on every endpoint; the answer is then
\* a 500 that holds the last error's message and nothing else, whatever the
\* earlier chunk queries returned.
C14_OnlyExhaustionFails ==
  (pc = "responded" /\ ValidConfiguration) =>
    /\ res.status \in {200, 500}
    /\ res.status = 500 <=> Exhausted
    /\ (Exhausted /\ Attempted) =>
         res = [status |-> 500, error |-> lastCall.outcome]

C14_Witness ==
  /\ pc = "responded"
  /\ res.status = 500
  /\ Len(issued) >= 2
  /\ all # <<>>

\* C15: the error that withClients throws when every endpoint fails is the
\* error of the final attempt on the last endpoint of the pool.
C15_LastErrorPropagates ==
  /\ (/\ lastWr.result = "threw"
      /\ Attempted
      /\ lastCall.client = lastWr.client) =>
       lastWr.error = [message |-> lastCall.outcome, client |-> lastCall.client,
                       attempt |-> lastWr.maxRetries]
  /\ (pc = "responded" /\ Exhausted /\ Attempted) =>
       /\ lastCall.client = Len(clients)
       /\ lastCall.attempt = lastWr.maxRetries
       /\ res.error = lastCall.outcome

C15_Witness ==
  /\ pc = "responded"
  /\ Exhausted
  /\ Len(clients) = 2
  /\ lastWr.kind = "logs"
  /\ res.error = "timeout"

\* no backend query has been made in this call
NoBackendQuery ==
  /\ ~Querying
  /\ lastCall = NoCall
  /\ lastWr = NoWr
  /\ issued = <<>>

\* C16: when neither URL is a well-formed http or https URL the call
\* answers 4xx with an error body and makes no backend query.
C16_NoEndpointNoQuery ==
  (pc # "idle" /\ \A i \in 1..Len(env) : ~IsHttpUrl(env[i])) =>
    /\ pc = "responded"
    /\ res.status \in 400..499
    /\ DOMAIN res = {"status", "error"}
    /\ NoBackendQuery

C16_Witness ==
  /\ pc = "responded"
  /\ res.status = 400
  /\ env[1].scheme = "ftp"
  /\ req.cursorTo = Null

\* C17: a cursorTo that is not a numeric block height makes the call fail
\* at once with an error response, without any backend query.
C17_MalformedCursorFailsAtOnce ==
  (pc # "idle" /\ req.cursorTo # Null /\ ~IsDecimal(req.cursorTo[1])) =>
    /\ pc = "responded"
    /\ res.status \in {400, 500}
    /\ NoBackendQuery

\* the response that carries rows (handler, lines 187-201)
RowsResponse == Ok200 /\ "target" \in DOMAIN res

\* every log of the call as a row, before sorting and truncation
AllRows ==
  {RowOf(all[k], blockMap, ClockBase + elapsed) : k \in 1..Len(all)}

\* C18: the rows of a response are in descending order of timestamp, there
\* are at most target of them, and they are a prefix of the sorted list: no
\* row left out is more recent than a row kept.
C18_RowsSortedThenTruncated ==
  Ok200 =>
    /\ \A k \in 1..(Len(res.rows) - 1) : res.rows[k].time >= res.rows[k + 1].time
    /\ RowsResponse =>
         /\ Len(res.rows) <= res.target
         /\ Range(res.rows) \subseteq AllRows
         /\ \A o \in AllRows \ Range(res.rows), r \in Range(res.rows) :
              o.time <= r.time

C18_Witness ==
  /\ RowsResponse
  /\ tsTodo = <<>>
  /\ Len(all) = 2
  /\ Len(res.rows) = 1
  /\ res.rows[1].hash[1] # all[1].blockHash

\* C19: the response holds min(target, n) rows, and they are the records
\* with the most recent block timestamps of the n found, also when the
\* deadline interrupts timestamp resolution.
C19_MostRecentRecordsKept ==
  RowsResponse =>
    /\ Len(res.rows) = Min(res.target, Len(all))
    /\ \A k \in 1..Len(all), r \in Range(res.rows) :
         <<all[k].blockHash, all[k].idx>> \notin {x.hash : x \in Range(res.rows)}
           => BlockTimestamp(all[k].blockHash) <= BlockTimestamp(r.hash[1])

\* the same statement for the calls that resolved every timestamp
C19_WhenAllResolved == (RowsResponse /\ tsTodo = <<>>) => C19_MostRecentRecordsKept

\* C20: a timestamp lookup is started only before the deadline; a record of
\* an unresolved block gets the current time and a resolved one its block
\* time; once the deadline has passed in the timestamp loop the call answers
\* 200.
C20_TimestampBudget ==
  /\ [](/\ (pc = "ts" /\ wc.ci = 1 /\ wc.i = 0) =>
             ~DeadlinePassed(elapsed, req.maxms)
        /\ RowsResponse =>
             \A r \in Range(res.rows) :
               r.time = IF r.hash[1] \in Range(tsTodo)
                        THEN ClockBase + elapsed
                        ELSE BlockTimestamp(r.hash[1]) * 1000)
  /\ [][(pc = "tsLoop" /\ DeadlinePassed(elapsed, req.maxms)) =>
          (pc' = "responded" /\ res'.status = 200)]_vars

C20_Witness ==
  /\ RowsResponse
  /\ tsTodo # <<>>
  /\ DOMAIN blockMap # {}
  /\ \E r \in Range(res.rows) : r.time = ClockBase + elapsed

\* the handler has resolved both boundaries of the window
Scanning == pc \in {"chunkLoop", "logs", "tsLoop", "ts"} \/ Ok200

\* C21: for an end boundary end >= 0 and a window size W >= 1 the start
\* boundary is max(0, end - W + 1): end - W + 1 when that is positive, 0
\* otherwise, never negative.
C21_StartBoundaryClamped ==
  (Scanning /\ toBlock >= 0 /\ req.window >= 1) =>
    /\ fromBlock = Max(0, toBlock - req.window + 1)
    /\ toBlock - req.window + 1 > 0 => fromBlock = toBlock - req.window + 1
    /\ fromBlock >= 0

C21_Witness ==
  /\ Scanning
  /\ req.window >= 1
  /\ toBlock - req.window + 1 < 0
  /\ fromBlock = 0

\* C22: for every accepted window value, 0 included, start <= end holds for
\* the scanned window and no chunk query covers a block outside
\* [start, end]: no block above the resolved end boundary is queried.
C22_QueriesInsideWindow ==
  Scanning =>
    /\ fromBlock <= toBlock
    /\ \A k \in 1..Len(issued) :
         /\ fromBlock <= issued[k][1]
         /\ issued[k][2] <= toBlock

\* C23: with a resume cursor the end boundary is that height and the call
\* makes no tip-height query; without a cursor the tip-height query is the
\* first backend query of the call and its result is the end boundary.
C23_EndBoundaryResolution ==
  /\ (pc = "tip" \/ lastCall.kind = "tip" \/
      (lastWr.result # "none" /\ lastWr.kind = "tip")) =>
       /\ req.cursorTo = Null
       /\ issued = <<>>
       /\ blockMap = <<>>
  /\ (Scanning /\ req.cursorTo # Null /\ IsDecimal(req.cursorTo[1])) =>
       toBlock = BigIntOf(req.cursorTo[1])
  /\ (Scanning /\ req.cursorTo = Null /\ issued = <<>>) =>
       /\ lastWr.result = "returned"
       /\ lastWr.kind = "tip"
       /\ toBlock = lastWr.value[1]

C23_Witness ==
  /\ pc = "chunkLoop"
  /\ req.cursorTo = Null
  /\ issued = <<>>
  /\ lastWr.calls = 2
  /\ toBlock = 3

\* C24: between two consecutive attempts of withRetry there is one sleep,
\* of rateDelayMs after a rate-limit error and of retryDelayMs after any
\* other error; no sleep of withRetry follows the final failed attempt, and
\* the number of attempts does not depend on the classification.
C24_OneSleepBetweenAttempts ==
  /\ (Querying /\ wc.i > 0) =>
       /\ lastCall.client = wc.ci
       /\ lastCall.attempt = wc.i - 1
       /\ lastCall.outcome # "ok"
       /\ wc.slept = (IF lastCall.outcome = "Too Many Requests"
                      THEN Policy.rateDelayMs ELSE Policy.retryDelayMs)
  /\ (Querying /\ wc.i = 0) =>
       wc.slept = (IF wc.ci = 1 THEN 0 ELSE FailoverPauseMs)
  /\ (pc = "responded" /\ lastWr.result = "threw" /\ Attempted) =>
       /\ wc.slept = 0
       /\ elapsed <= lastCall.at + 1
  /\ (lastWr.result = "threw" /\ Attempted) =>
       /\ lastWr.calls = lastWr.maxRetries + 1
       /\ lastWr.error.attempt = lastWr.maxRetries

C24_Witness ==
  /\ pc = "tip"
  /\ wc.i = 1
  /\ lastCall.outcome = "Too Many Requests"
  /\ wc.slept = DefaultRateDelayMs

RowHashes == {r.hash : r \in Range(res.rows)}

\* C27: no record is lost by paging: when a call has walked its whole
\* window, so that the cursor it returns lies below the window, every
\* record found in the window is in its rows, also when the window holds
\* more than target records.
C27_NoRecordLostByPaging ==
  (RowsResponse /\ ~StoppedEarly) =>
    \A k \in 1..Len(all) : <<all[k].blockHash, all[k].idx>> \in RowHashes

\* C29: a nextCursorTo returned by a call is strictly less than the end
\* boundary the call used, for every accepted window size, so a chain of
\* calls that follows nextCursorTo ends with nextCursorTo = null.
C29_PagingMakesProgress ==
  (Ok200 /\ res.nextCursorTo # Null) =>
    BigIntOf(res.nextCursorTo[1]) < toBlock

\* the same statement for the calls that walked a window of W >= 1 blocks
C29_AfterFullWalk ==
  (~StoppedEarly /\ req.window >= 1) => C29_PagingMakesProgress

\* C28: for every accepted chunk size N, 0 included, each iteration of the
\* chunk loop strictly increases the cursor, and a walk over [from, to]
\* issues at most ceil((to - from + 1) / N) chunk queries.
C28_ChunkLoopAdvances ==
  /\ (pc = "chunkLoop" /\ issued # <<>>) => cursor > issued[Len(issued)][1]
  /\ (Scanning /\ issued # <<>>) =>
       (Len(issued) - 1) * req.chunk < end - start + 1

\* the same statement for the chunk sizes N >= 1
C28_ForPositiveChunk == req.chunk >= 1 => C28_ChunkLoopAdvances

\* C30: for every accepted retries value, a query is attempted at least
\* once on an endpoint before the endpoint is given up, and the error of a
\* failed call is one that some attempt raised, never undefined.
C30_AttemptBeforeGivingUp ==
  /\ lastWr.result = "threw" => lastWr.calls >= 1
  /\ (pc = "responded" /\ res.status = 500 /\ ValidConfiguration) =>
       /\ lastCall.kind # "none"
       /\ res.error \in ErrMessages

\* the same statement for the retries values >= 0
C30_ForNonNegativeRetries == req.retries >= 0 => C30_AttemptBeforeGivingUp

RECURSIVE LogsOf(_)
LogsOf(ranges) ==
  IF ranges = <<>> THEN <<>>
  ELSE getLogs(Head(ranges)[1], Head(ranges)[2]) \o LogsOf(Tail(ranges))

\* C31: when getLogsChunked returns, the chunks it queried are the
\* ascending prefix of the partition of [start, end] below the cursor, the
\* list it returns holds the logs of those chunks in chunk order, and
\* nextFromBlock is the first block not queried when the deadline stopped
\* the walk and null when the walk covered the range; the deadline is
\* tested before every chunk, the first included.
C31_PartialWalkIsAPrefix ==
  /\ (ChunkerReturned /\ req.chunk >= 1) =>
       /\ \A k \in 1..Len(issued) :
            /\ issued[k][1] = (IF k = 1 THEN start ELSE issued[k - 1][2] + 1)
            /\ issued[k][2] = Min(issued[k][1] + req.chunk - 1, end)
       /\ cursor = (IF issued = <<>> THEN start
                    ELSE issued[Len(issued)][2] + 1)
       /\ all = LogsOf(issued)
       /\ nextFromBlock = (IF cursor <= end THEN <<cursor>> ELSE Null)
       /\ cursor <= end => DeadlinePassed(elapsed, req.maxms)
  /\ (pc = "logs" /\ wc = StartWc /\ lastCall = NoCall) =>
       ~DeadlinePassed(elapsed, req.maxms)

C31_Witness ==
  /\ ChunkerReturned
  /\ req.chunk = 1
  /\ Len(issued) = 2
  /\ cursor <= end
  /\ all # <<>>

\* the deadline stops the walk before the first chunk
C31_WitnessBeforeFirstChunk ==
  /\ ChunkerReturned
  /\ req.chunk >= 1
  /\ issued = <<>>
  /\ nextFromBlock = <<start>>

\* a call is being served
InCall == pc \notin {"idle", "responded"}

\* C32: every scan call sends exactly one response, a 4xx configuration
\* error, a 200 result or a 5xx error, and it sends it eventually, for
\* every accepted parameter combination, when every backend call returns
\* or fails and the clock advances.
C32_OneResponseEventually ==
  /\ [](pc = "responded" => res.status \in {200, 400, 500})
  /\ [](InCall => res = NoRes)
  /\ [][res' # res =>
         (res' = NoRes \/ (pc # "responded" /\ pc' = "responded"))]_vars
  /\ (InCall ~> pc = "responded")

C32_Witness ==
  /\ pc = "responded"
  /\ req.chunk = 0
  /\ res.status = 200
  /\ Len(issued) = MaxIssued

------------------------------------------------------------------------------
(* The page (src/pages/index.jsx, Home): its state, the requests to       *)
(* /api/scan it has in flight, and what it does with each outcome.        *)

MaxScans == 3

\* values the CLIENT_TIMEOUT_MS field can be saved with (getN, lines 229-232,
\* accepts every finite number >= 0)
ClientTimeouts ==
  {0, MinTimeoutMs, MinTimeoutMs + 1, MinTimeoutMs + BudgetMarginMs,
   DefaultClientTimeoutMs}

\* the cursors a response may carry
PageCursors == {Null, <<3>>, <<7>>}

\* scan, line 507: the cursor parameter of the request
CursorParam(p, reset) ==
  IF ~reset /\ p.nextCursorTo # Null THEN p.nextCursorTo ELSE Null

\* scan, line 517: the maxms parameter of the request
MaxmsParam(t) == Max(MinTimeoutMs, t - BudgetMarginMs)

\* scan, line 521: the delay after which the request is aborted
AbortAfter(t) == Max(MinTimeoutMs, t)

\* scan, lines 503-522: loading and error are set, the request is built
\* from the state of the render the handler belongs to, and sent
ScanStarted(p, reset) ==
  [p EXCEPT !.loading = TRUE, !.err = "", !.started = @ + 1,
            !.inflight = @ \cup {[id |-> p.started + 1, reset |-> reset,
                                   cursorTo |-> CursorParam(p, reset),
                                   lastOk |-> p.lastOk,
                                   maxms |-> MaxmsParam(p.timeout),
                                   abortAfter |-> AbortAfter(p.timeout)]}]

AfterFailureForgetting(p, r, msg) ==
  [p EXCEPT !.err = msg, !.loading = FALSE, !.nextCursorTo = Null,
            !.inflight = @ \ {r}]

\* scan, lines 536-540: catch sets the error, finally clears loading
AfterFailure(p, r, msg) ==
  [p EXCEPT !.err = msg, !.loading = FALSE, !.inflight = @ \ {r}]

RowsAfterReplacing(prev, reset, rows) == rows

\* scan, line 535
RowsAfter(prev, reset, rows) == IF reset THEN rows ELSE prev \o rows

\* scan, lines 529-535 and 538-540: a 200 response is taken in
AfterSuccess(p, r, data) ==
  [p EXCEPT !.nextCursorTo = data.nextCursorTo,
            !.rows = RowsAfter(p.rows, r.reset, data.rows),
            !.lastOk = [nextCursorTo |-> data.nextCursorTo, reset |-> r.reset,
                        before |-> p.rows, rows |-> data.rows],
            !.loading = FALSE, !.inflight = @ \ {r}]

CanScan == page.started < MaxScans

\* Home, line 543: the effect of the first render
Mount ==
  /\ ~page.mounted
  /\ page' = [ScanStarted(page, TRUE) EXCEPT !.mounted = TRUE]
  /\ UNCHANGED <<callVars, par, chk>>

\* Home, line 597: the Refresh button, disabled while loading
Refresh ==
  /\ page.mounted /\ CanScan
  /\ ~page.loading
  /\ page' = ScanStarted(page, TRUE)
  /\ UNCHANGED <<callVars, par, chk>>

\* Home, lines 598-602: the Load more button, disabled while loading or
\* while there is no cursor
LoadMoreClick ==
  /\ page.mounted /\ CanScan
  /\ ~(page.loading \/ page.nextCursorTo = Null)
  /\ page' = ScanStarted(page, FALSE)
  /\ UNCHANGED <<callVars, par, chk>>

\* Settings.handleSave, lines 250-266, reached by the Settings button of
\* line 594, which is never disabled: the new settings are stored and
\* onApply, the scan of the current render, runs with reset
HandleSave(t) ==
  /\ page.mounted /\ CanScan
  /\ page' = [ScanStarted(page, TRUE) EXCEPT !.timeout = t]
  /\ UNCHANGED <<callVars, par, chk>>

\* Settings.handleReset, lines 268-273
HandleReset ==
  /\ page.mounted /\ CanScan
  /\ page' = [ScanStarted(page, TRUE) EXCEPT
                !.timeout = DefaultClientTimeoutMs]
  /\ UNCHANGED <<callVars, par, chk>>

\* scan, lines 523-535: the response is a 200
ResponseOk(r, data) ==
  /\ r \in page.inflight
  /\ page' = AfterSuccess(page, r, data)
  /\ UNCHANGED <<callVars, par, chk>>

\* scan, lines 523-528 and 536-540: a non-OK response, the abort of line
\* 521 or a network error
ResponseFailed(r, msg) ==
  /\ r \in page.inflight
  /\ page' = AfterFailure(page, r, msg)
  /\ UNCHANGED <<callVars, par, chk>>

FailureMessages ==
  {"Scan failed with 500", "no_rpc", "This operation was aborted",
   "Failed to fetch"}

InitPage ==
  /\ Init
  /\ backendMode = "any"
  /\ Len(FilterOk(env)) = 2
  /\ \A b \in Blocks : ledger[b] = 0

NextPage ==
  \/ Mount
  \/ Refresh
  \/ LoadMoreClick
  \/ \E t \in ClientTimeouts : HandleSave(t)
  \/ HandleReset
  \/ \E r \in page.inflight, c \in PageCursors, n \in 0..1 :
        ResponseOk(r, [nextCursorTo |-> c,
                       rows |-> IF n = 0 THEN <<>> ELSE <<r.id>>])
  \/ \E r \in page.inflight, msg \in FailureMessages : ResponseFailed(r, msg)

SpecPage == InitPage /\ [][NextPage]_vars

\* getLogsChunked has returned, to the handler or by an exception
ChunkerDone(c) == c.pc \in {"tsLoop", "done"}

\* C33: getLogsChunked called with (fromBlock, toBlock) = (a, b) or with
\* (b, a) issues the same sequence of chunk queries, ascending from
\* min(a, b) to max(a, b), and returns the same logs and the same
\* nextFromBlock.
C33_DirectionAgnostic ==
  LET a == chk.fwd.fromBlock
      b == chk.fwd.toBlock
      q == chk.fwd.issued
  IN /\ chk.rev.pc = chk.fwd.pc
     /\ chk.rev.issued = q
     /\ chk.rev.all = chk.fwd.all
     /\ ChunkerDone(chk.fwd) => chk.rev.nextFromBlock = chk.fwd.nextFromBlock
     /\ \A k \in 1..Len(q) :
          /\ q[k][1] = (IF k = 1 THEN Min(a, b) ELSE q[k - 1][2] + 1)
          /\ q[k][1] <= q[k][2]
          /\ q[k][2] <= Max(a, b)
     /\ (ChunkerDone(chk.fwd) /\ chk.fwd.nextFromBlock = Null
           /\ chk.fwd.res.status # 500) =>
          (q # <<>> /\ q[Len(q)][2] = Max(a, b))

C33_Witness ==
  /\ ChunkerDone(chk.fwd)
  /\ chk.fwd.fromBlock > chk.fwd.toBlock + 1
  /\ chk.rev.fromBlock < chk.rev.toBlock
  /\ Len(chk.fwd.issued) = 2
  /\ chk.fwd.all # <<>>
  /\ chk.fwd.nextFromBlock # Null

\* C34: a Load more request carries cursorTo equal to the nextCursorTo of
\* the most recent successful response and its rows are appended to the
\* rows shown; it is never issued while nextCursorTo is null; a Refresh
\* request carries no cursor and its rows replace the rows shown.
C34_PagingProtocol ==
  /\ \A r \in page.inflight :
       /\ r.reset => r.cursorTo = Null
       /\ ~r.reset => /\ r.cursorTo # Null
                      /\ r.lastOk # Null
                      /\ r.cursorTo = r.lastOk.nextCursorTo
  /\ page.lastOk # Null =>
       page.rows = (IF page.lastOk.reset THEN page.lastOk.rows
                    ELSE page.lastOk.before \o page.lastOk.rows)

C34_Witness ==
  /\ page.lastOk # Null
  /\ ~page.lastOk.reset
  /\ Len(page.rows) = 2
  /\ \E r \in page.inflight : ~r.reset /\ r.cursorTo = <<7>>

\* C35: the page never has two requests to /api/scan in flight.
C35_OneRequestInFlight == Cardinality(page.inflight) <= 1

\* C35, where every scan is started by the first render, by Refresh or by
\* Load more: a scan starts only while loading is false.
C35_ByButtons ==
  [][(HandleReset \/ \E t \in ClientTimeouts : HandleSave(t))
     \/ (page'.started > page.started => ~page.loading)]_vars

\* C36: a failed request leaves rows and nextCursorTo as they were; it
\* only sets the error and clears loading.
C36_FailureKeepsRowsAndCursor ==
  [][(\E r \in page.inflight, msg \in FailureMessages :
        ResponseFailed(r, msg)) =>
     (/\ page'.err \in FailureMessages
      /\ page'.rows = page.rows
      /\ page'.nextCursorTo = page.nextCursorTo
      /\ page'.lastOk = page.lastOk
      /\ page'.timeout = page.timeout
      /\ page'.started = page.started
      /\ ~page'.loading)]_vars

C36_Witness ==
  /\ page.err = "Scan failed with 500"
  /\ ~page.loading
  /\ page.rows # <<>>
  /\ page.nextCursorTo = <<3>>

\* C37: the maxms a request carries is strictly smaller than the delay
\* after which the page aborts it.
C37_BudgetBelowAbort == \A r \in page.inflight : r.maxms < r.abortAfter

\* C37, for a CLIENT_TIMEOUT_MS above 15000
C37_ForLargeTimeout ==
  \A r \in page.inflight :
    r.abortAfter > MinTimeoutMs => r.maxms < r.abortAfter

====
